---- MODULE Spec2Model ----
(***************************************************************************)
(* populate_map.py of Saferoom3D: the tile-grid codec (decode_tile_data),  *)
(* the floor index (find_floor_positions), the three placement phases of   *)
(* populate_map and the merge/save at its end, as one sequential state     *)
(* machine.  One action is one step of the script: a loop iteration, or a  *)
(* straight-line block between two loops.                                  *)
(*                                                                         *)
(* Distances are compared through their squares: for integer coordinates   *)
(* sqrt(a) < m is a < m*m.  The facing angle, the prop jitter (|j| <= 0.3, *)
(* never registered) and the prop scale are continuous draws that no       *)
(* control decision reads; they are left out of the entity records.        *)
(***************************************************************************)
EXTENDS Integers, Sequences, FiniteSets, TLC

VARIABLES
    pc,               \* position of the script
    exc,              \* the exception that ended the run, "" when none
    map_data,         \* the loaded document (json.load)
    width, depth, spawn_pos,
    decompressed,     \* the RLE byte sequence inside decode_tile_data
    i, x, z,          \* decode_tile_data's cursor and fill position
    value, remaining, \* the run being written and its iterations left
    tiles,            \* the grid, tiles[x][z]
    floor_positions,  \* the floor list (shuffled in place)
    placed_positions, \* the occupancy register
    new_enemies, new_props,
    monsters_placed, props_placed, groups_placed,
    cursor,           \* 0-based index of the running for loop into its list
    members_left,     \* iterations left of the cluster loop, 0 outside it
    finished,         \* the placement phases whose loop has ended normally
    writes,           \* number of json.dump calls on the destination
    output            \* the document written to the destination

vars == <<pc, exc, map_data, width, depth, spawn_pos, decompressed, i, x, z,
          value, remaining, tiles, floor_positions, placed_positions, new_enemies, new_props,
          monsters_placed, props_placed, groups_placed, cursor, members_left,
          finished, writes, output>>

decodeVars == <<decompressed, i, x, z, value, remaining, tiles>>
placeVars == <<floor_positions, placed_positions, new_enemies, new_props,
               monsters_placed, props_placed, groups_placed, cursor,
               members_left, finished>>

----------------------------------------------------------------------------
(* Bounds of the model                                                     *)

\* longest RLE byte sequence drawn for the codec specification
MaxLen == 4
\* largest small byte value drawn for the codec specification (with 0xFF)
MaxSmallByte == 3
\* largest width and depth drawn for the codec specification
MaxW == 2
MaxD == 3
\* most enemies and props a loaded document already holds
MaxEnemies == 2
MaxProps == 1
\* the shuffles drawn: the floor list rotated by 0 .. MaxShuffle times
\* ShuffleStride places
MaxShuffle == 2
ShuffleStride == 37

----------------------------------------------------------------------------
(* Python values                                                           *)

\* an int and a 2-tuple of ints, as elements of one list
PyInt(n) == [tag |-> "int", a |-> n, b |-> 0]
PyTuple(a, b) == [tag |-> "tuple", a |-> a, b |-> b]

Min(a, b) == IF a < b THEN a ELSE b
Max(a, b) == IF a > b THEN a ELSE b

----------------------------------------------------------------------------
(* decode_tile_data                                                        *)

SENTINEL == 255

\* tiles = [[0] * depth for _ in range(width)]
EmptyGrid(w, d) == [xx \in 0 .. w - 1 |-> [zz \in 0 .. d - 1 |-> 0]]

\* the byte at 0-based index k
ByteAt(bytes, k) == bytes[k + 1]

\* if i < len(decompressed) and decompressed[i] == 0xFF, i being the index
\* after the value byte
HasSentinel(bytes, k) == k < Len(bytes) /\ ByteAt(bytes, k) = SENTINEL

\* the run that starts at index k: its value, its count and the index after it
ReadRun(bytes, k) ==
    LET v == ByteAt(bytes, k)
        k1 == k + 1
    IN  IF HasSentinel(bytes, k1)
        THEN IF k1 + 1 < Len(bytes)
             THEN [value |-> v, count |-> ByteAt(bytes, k1 + 1), next |-> k1 + 2]
             ELSE [value |-> v, count |-> 1, next |-> k1 + 1]
        ELSE [value |-> v, count |-> 1, next |-> k1]

\* if x < width and z < depth
InGrid_Unguarded(xx, zz, w, d) == TRUE
InGrid(xx, zz, w, d) == xx < w /\ zz < d

\* z += 1; if z >= depth: z = 0; x += 1
Advance_RowFirst(xx, zz, w, d) ==
    IF xx + 1 >= w THEN [x |-> 0, z |-> zz + 1] ELSE [x |-> xx + 1, z |-> zz]
Advance(xx, zz, w, d) ==
    IF zz + 1 >= d THEN [x |-> xx + 1, z |-> 0] ELSE [x |-> xx, z |-> zz + 1]

\* one iteration of: while i < len(decompressed) and x < width, up to the
\* for loop over the run
DecodeRun ==
    /\ pc = "decode"
    /\ i < Len(decompressed) /\ x < width
    /\ LET run == ReadRun(decompressed, i)
       IN  /\ i' = run.next
           /\ value' = run.value
           /\ remaining' = run.count
           /\ pc' = IF run.count > 0 THEN "fill" ELSE "decode"
    /\ UNCHANGED <<exc, map_data, width, depth, spawn_pos, decompressed, x, z,
                   tiles, placeVars, writes, output>>

\* one iteration of: for _ in range(count); a store outside a list is an
\* IndexError
FillCell ==
    /\ pc = "fill"
    /\ remaining > 0
    /\ remaining' = remaining - 1
    /\ IF InGrid(x, z, width, depth)
       THEN IF x \in 0 .. width - 1 /\ z \in 0 .. depth - 1
            THEN /\ tiles' = [tiles EXCEPT ![x][z] = value]
                 /\ x' = Advance(x, z, width, depth).x
                 /\ z' = Advance(x, z, width, depth).z
                 /\ pc' = IF remaining' > 0 THEN "fill" ELSE "decode"
                 /\ exc' = exc
            ELSE /\ pc' = "raised"
                 /\ exc' = "IndexError"
                 /\ UNCHANGED <<tiles, x, z>>
       ELSE /\ pc' = IF remaining' > 0 THEN "fill" ELSE "decode"
            /\ UNCHANGED <<exc, tiles, x, z>>
    /\ UNCHANGED <<map_data, width, depth, spawn_pos, decompressed, i, value,
                   placeVars, writes, output>>

\* the loop condition fails: return tiles
DecodeReturn ==
    /\ pc = "decode"
    /\ ~(i < Len(decompressed) /\ x < width)
    /\ pc' = "index"
    /\ UNCHANGED <<exc, map_data, width, depth, spawn_pos, decodeVars,
                   placeVars, writes, output>>

----------------------------------------------------------------------------
(* Tables and pure helpers of the placement                                *)

TIER1_MONSTERS == {"dungeon_rat", "slime", "goblin"}
TIER2_MONSTERS == {"goblin_shaman", "goblin_thrower", "spider", "mushroom", "bat"}
TIER3_MONSTERS == {"skeleton", "wolf", "lizard", "eye", "badlama"}
TIER4_MONSTERS == {"crawler_killer", "shadow_stalker", "mimic", "flesh_golem"}
TIER5_MONSTERS == {"living_armor", "plague_bearer", "lava_elemental", "void_spawn"}
BOSSES == {"skeleton_lord", "dragon_king", "spider_queen", "the_butcher",
           "mordecai", "mongo"}

DUNGEON_PROPS == {"barrel", "crate", "pot", "torch", "bone_pile", "skull_pile",
                  "rubble_heap"}
TREASURE_PROPS == {"chest", "treasure_chest", "scattered_coins", "ancient_scroll"}
SPOOKY_PROPS == {"blood_pool", "coiled_chains", "manacles", "discarded_sword",
                 "forgotten_shield"}
NATURE_PROPS == {"moss_patch", "glowing_mushrooms", "water_puddle", "thorny_vines"}
CAMP_PROPS == {"campfire", "abandoned_campfire", "rat_nest", "moldy_bread"}

\* the densities, the safe zone, the spacings, the anchor stride and reach
TilesPerMonster == 100
TilesPerProp == 50
TilesPerGroup == 500
MaxGroups == 20
AnchorStride == 50
SafeZone == 15
MonsterSpacing == 5
PropSpacing == 2
GroupSpacing == 10
GroupMinDist == 40
BossMinDist == 120
ClusterReach == 4
MinCluster == 3
MaxCluster == 5

\* the square of distance_from_spawn for two coordinate pairs
DistSq(p, q) == (p[1] - q[1]) * (p[1] - q[1]) + (p[2] - q[2]) * (p[2] - q[2])

\* get_tier_for_distance, on the squared distance
get_tier_for_distance(d2) ==
    IF d2 < 30 * 30 THEN 1
    ELSE IF d2 < 60 * 60 THEN 2
    ELSE IF d2 < 100 * 100 THEN 3
    ELSE IF d2 < 150 * 150 THEN 4
    ELSE 5

\* find_floor_positions: the cells holding 1, by x and then z
find_floor_positions(t, w, d) ==
    LET scan == [k \in 1 .. w * d |-> <<(k - 1) \div d, (k - 1) % d>>]
    IN  SelectSeq(scan, LAMBDA c : t[c[1]][c[2]] = 1)

\* is_position_clear: walks the list in order; each element is subscripted
\* by distance_from_spawn (existing[0], existing[1]), which raises TypeError
\* on an int
RECURSIVE is_position_clear(_, _, _)
is_position_clear(pos, existing_positions, min_dist) ==
    IF existing_positions = <<>> THEN "clear"
    ELSE LET existing == Head(existing_positions)
         IN  IF existing.tag # "tuple" THEN "TypeError"
             ELSE IF DistSq(pos, <<existing.a, existing.b>>) < min_dist * min_dist
                  THEN "blocked"
                  ELSE is_position_clear(pos, Tail(existing_positions), min_dist)

\* list(spawn_pos): the list of the tuple's elements
ListOfTuple(t) == <<PyInt(t[1]), PyInt(t[2])>>

\* the register the run starts with: list(spawn_pos), then one tuple per
\* existing enemy
InitialRegister(spawn, enemies) ==
    ListOfTuple(spawn) \o [k \in 1 .. Len(enemies) |-> PyTuple(enemies[k].x, enemies[k].z)]

\* an outcome of random.shuffle: the list rotated by k places
Rotate(s, k) ==
    IF s = <<>> THEN s
    ELSE [j \in 1 .. Len(s) |-> s[((j - 1 + k) % Len(s)) + 1]]

target_monsters == Len(floor_positions) \div TilesPerMonster
target_props == Len(floor_positions) \div TilesPerProp
groups_to_add == Min(MaxGroups, Len(floor_positions) \div TilesPerGroup)

\* floor_positions[::50]: the number of anchors, and the k-th of them (from 0)
AnchorCount == (Len(floor_positions) + AnchorStride - 1) \div AnchorStride
Anchor(k) == floor_positions[AnchorStride * k + 1]

----------------------------------------------------------------------------
(* The documents a run is given                                            *)

\* n cells of value v as RLE runs of at most 255
RECURSIVE RunsOf(_, _)
RunsOf(v, n) ==
    IF n <= 0 THEN <<>>
    ELSE IF n = 1 THEN <<v>>
    ELSE <<v, SENTINEL, Min(n, 255)>> \o RunsOf(v, n - Min(n, 255))

GridSizes == {<<7, 7>>, <<10, 10>>, <<25, 10>>, <<50, 10>>}

\* all floor; a wall row then floor; floor that stops one row short and ends
\* in a run without its count byte
TileBlobs(w, d) ==
    { RunsOf(1, w * d),
      RunsOf(0, d) \o RunsOf(1, w * d - d),
      RunsOf(1, w * d - d) \o <<1, SENTINEL>> }

ExistingEnemies ==
    { [type |-> "dungeon_rat", x |-> 1, z |-> 1, level |-> 1, isBoss |-> FALSE],
      [type |-> "skeleton_lord", x |-> 3, z |-> 4, level |-> 3, isBoss |-> TRUE] }
ExistingProps == { [type |-> "barrel", x |-> 2, z |-> 2] }

SeqsUpTo(S, n) == UNION {[1 .. k -> S] : k \in 0 .. n}

\* no document: the value of map_data and output before they are set
NoDoc == [width |-> 0, depth |-> 0, hasSpawn |-> FALSE, sx |-> 0, sz |-> 0,
          tileData |-> "absent", rle |-> <<>>, enemies |-> <<>>,
          placedProps |-> <<>>, populated |-> 0]

\* documents whose tileData is missing, empty, or not a readable blob
BadDocs ==
    { [width |-> 10, depth |-> 10, hasSpawn |-> FALSE, sx |-> 0, sz |-> 0,
       tileData |-> td, rle |-> <<>>, enemies |-> es, placedProps |-> <<>>,
       populated |-> 0] :
          td \in {"absent", "empty", "corrupt"},
          es \in SeqsUpTo(ExistingEnemies, MaxEnemies) }

\* documents of one grid size with a readable blob
DocsOfSize(w, d) ==
    { [width |-> w, depth |-> d, hasSpawn |-> sp, sx |-> 0, sz |-> 0,
       tileData |-> "ok", rle |-> b, enemies |-> es, placedProps |-> ps,
       populated |-> 0] :
          sp \in BOOLEAN, b \in TileBlobs(w, d),
          es \in SeqsUpTo(ExistingEnemies, MaxEnemies),
          ps \in SeqsUpTo(ExistingProps, MaxProps) }

Docs == UNION {DocsOfSize(g[1], g[2]) : g \in GridSizes}

AllDocs == Docs \cup BadDocs

----------------------------------------------------------------------------
(* populate_map                                                            *)

Init ==
    /\ pc = "start"
    /\ exc = ""
    /\ map_data = NoDoc
    /\ width = 0 /\ depth = 0
    /\ spawn_pos = <<0, 0>>
    /\ decompressed = <<>>
    /\ i = 0 /\ x = 0 /\ z = 0
    /\ value = 0 /\ remaining = 0
    /\ tiles = EmptyGrid(0, 0)
    /\ floor_positions = <<>>
    /\ placed_positions = <<>>
    /\ new_enemies = <<>> /\ new_props = <<>>
    /\ monsters_placed = 0 /\ props_placed = 0 /\ groups_placed = 0
    /\ cursor = 0 /\ members_left = 0
    /\ finished = {}
    /\ writes = 0
    /\ output = NoDoc

\* if not tile_data, for tileData missing (the default '') or empty
TileDataMissing_OnlyAbsent(doc) == doc.tileData = "absent"
TileDataMissing(doc) == doc.tileData \in {"absent", "empty"}

\* json.load, width, depth, spawn_pos; then the tileData test: a missing or
\* empty tileData prints and returns
Load ==
    /\ pc = "start"
    /\ \E doc \in AllDocs :
        /\ map_data' = doc
        /\ width' = doc.width
        /\ depth' = doc.depth
        /\ spawn_pos' = IF doc.hasSpawn THEN <<doc.sx, doc.sz>>
                        ELSE <<doc.width \div 2, doc.depth \div 2>>
        /\ pc' = IF TileDataMissing(doc) THEN "aborted"
                 ELSE "decompress"
    /\ UNCHANGED <<exc, decodeVars, placeVars, writes, output>>

\* base64.b64decode and gzip.decompress, which raise on a blob that is not
\* base64 of a gzip stream; then the grid of zeros
Decompress ==
    /\ pc = "decompress"
    /\ IF map_data.tileData = "corrupt"
       THEN /\ pc' = "raised"
            /\ exc' = "DecodeError"
            /\ UNCHANGED decodeVars
       ELSE /\ pc' = "decode"
            /\ decompressed' = map_data.rle
            /\ tiles' = EmptyGrid(width, depth)
            /\ i' = 0 /\ x' = 0 /\ z' = 0
            /\ UNCHANGED <<exc, value, remaining>>
    /\ UNCHANGED <<map_data, width, depth, spawn_pos, placeVars, writes, output>>

\* find_floor_positions, the register, the empty result lists, the shuffle
IndexFloor ==
    /\ pc = "index"
    /\ \E k \in 0 .. MaxShuffle :
        floor_positions' =
            Rotate(find_floor_positions(tiles, width, depth), k * ShuffleStride)
    /\ placed_positions' = InitialRegister(spawn_pos, map_data.enemies)
    /\ new_enemies' = <<>> /\ new_props' = <<>>
    /\ monsters_placed' = 0
    /\ cursor' = 0
    /\ pc' = "phaseA"
    /\ UNCHANGED <<exc, map_data, width, depth, spawn_pos, decodeVars,
                   props_placed, groups_placed, members_left, finished,
                   writes, output>>

\* the exception leaves populate_map
Raise(e) ==
    /\ pc' = "raised"
    /\ exc' = e

TierPool(tier) ==
    IF tier = 1 THEN TIER1_MONSTERS
    ELSE IF tier = 2 THEN TIER2_MONSTERS
    ELSE IF tier = 3 THEN TIER3_MONSTERS
    ELSE IF tier = 4 THEN TIER4_MONSTERS
    ELSE TIER5_MONSTERS

\* the type and boss flag a Phase A monster can get at squared distance d2
MonsterDraws(d2) ==
    {[type |-> t, isBoss |-> FALSE] : t \in TierPool(get_tier_for_distance(d2))}
    \cup (IF d2 > BossMinDist * BossMinDist
          THEN {[type |-> t, isBoss |-> TRUE] : t \in BOSSES}
          ELSE {})

\* for pos in ...: if placed >= target: break -- the list is exhausted or
\* the quota is met (the same test heads the three placement loops)
LoopEnds_IgnoreQuota(cur, len, placed, target) == cur >= len
LoopEnds(cur, len, placed, target) == cur >= len \/ placed >= target

\* one iteration of the monster loop, or its end
PhaseAStep ==
    /\ pc = "phaseA"
    /\ IF LoopEnds(cursor, Len(floor_positions), monsters_placed, target_monsters)
       THEN /\ pc' = "phaseB"
            /\ cursor' = 0
            /\ props_placed' = 0
            /\ finished' = finished \cup {"A"}
            /\ UNCHANGED <<exc, placed_positions, new_enemies, monsters_placed>>
       ELSE LET pos == floor_positions[cursor + 1]
                d2 == DistSq(pos, spawn_pos)
                clear == is_position_clear(pos, placed_positions, MonsterSpacing)
            IN  IF d2 < SafeZone * SafeZone \/ clear = "blocked"
                THEN /\ cursor' = cursor + 1
                     /\ UNCHANGED <<pc, exc, placed_positions, new_enemies,
                                    monsters_placed, props_placed, finished>>
                ELSE IF clear = "TypeError"
                THEN /\ Raise("TypeError")
                     /\ UNCHANGED <<cursor, placed_positions, new_enemies,
                                    monsters_placed, props_placed, finished>>
                ELSE /\ \E m \in MonsterDraws(d2) :
                            new_enemies' = Append(new_enemies,
                                [type |-> m.type, x |-> pos[1], z |-> pos[2],
                                 level |-> Max(1, get_tier_for_distance(d2)),
                                 isBoss |-> m.isBoss])
                     /\ placed_positions' = Append(placed_positions, PyTuple(pos[1], pos[2]))
                     /\ monsters_placed' = monsters_placed + 1
                     /\ cursor' = cursor + 1
                     /\ UNCHANGED <<pc, exc, props_placed, finished>>
    /\ UNCHANGED <<map_data, width, depth, spawn_pos, decodeVars, floor_positions,
                   new_props, groups_placed, members_left, writes, output>>

\* the prop table of a squared distance
PropPool(d2) ==
    IF d2 < 30 * 30 THEN DUNGEON_PROPS \cup CAMP_PROPS
    ELSE IF d2 < 80 * 80 THEN DUNGEON_PROPS \cup NATURE_PROPS
    ELSE IF d2 < 130 * 130 THEN DUNGEON_PROPS \cup SPOOKY_PROPS \cup TREASURE_PROPS
    ELSE SPOOKY_PROPS \cup TREASURE_PROPS

\* one iteration of the prop loop, or its end
PhaseBStep ==
    /\ pc = "phaseB"
    /\ IF LoopEnds(cursor, Len(floor_positions), props_placed, target_props)
       THEN /\ pc' = "phaseC"
            /\ cursor' = 0
            /\ groups_placed' = 0
            /\ finished' = finished \cup {"B"}
            /\ UNCHANGED <<exc, placed_positions, new_props, props_placed>>
       ELSE LET pos == floor_positions[cursor + 1]
                d2 == DistSq(pos, spawn_pos)
                clear == is_position_clear(pos, placed_positions, PropSpacing)
            IN  IF clear = "blocked"
                THEN /\ cursor' = cursor + 1
                     /\ UNCHANGED <<pc, exc, placed_positions, new_props,
                                    props_placed, groups_placed, finished>>
                ELSE IF clear = "TypeError"
                THEN /\ Raise("TypeError")
                     /\ UNCHANGED <<cursor, placed_positions, new_props,
                                    props_placed, groups_placed, finished>>
                ELSE /\ \E t \in PropPool(d2) :
                            new_props' = Append(new_props,
                                [type |-> t, x |-> pos[1], z |-> pos[2]])
                     /\ placed_positions' = Append(placed_positions, PyTuple(pos[1], pos[2]))
                     /\ props_placed' = props_placed + 1
                     /\ cursor' = cursor + 1
                     /\ UNCHANGED <<pc, exc, groups_placed, finished>>
    /\ UNCHANGED <<map_data, width, depth, spawn_pos, decodeVars, floor_positions,
                   new_enemies, monsters_placed, members_left, writes, output>>

\* the pool of a cluster whose anchor has the tier
ClusterPool(tier) ==
    IF tier <= 2 THEN TIER1_MONSTERS \cup TIER2_MONSTERS
    ELSE IF tier <= 3 THEN TIER2_MONSTERS \cup TIER3_MONSTERS
    ELSE TIER3_MONSTERS \cup TIER4_MONSTERS

\* int(p + random.uniform(-4, 4)) for an integer p
MemberCoords(p) == (p - ClusterReach) .. (p + ClusterReach)

\* one iteration of the anchor loop or of the member loop inside it, or the
\* anchor loop's end
PhaseCStep ==
    /\ pc = "phaseC"
    /\ IF members_left > 0
       THEN LET pos == Anchor(cursor)
                tier == get_tier_for_distance(DistSq(pos, spawn_pos))
            IN  /\ \E mx \in MemberCoords(pos[1]), mz \in MemberCoords(pos[2]) :
                        IF mx < 0 \/ mx >= width \/ mz < 0 \/ mz >= depth
                        THEN new_enemies' = new_enemies
                        ELSE IF tiles[mx][mz] # 1
                        THEN new_enemies' = new_enemies
                        ELSE \E t \in ClusterPool(tier) :
                                new_enemies' = Append(new_enemies,
                                    [type |-> t, x |-> mx, z |-> mz,
                                     level |-> Max(1, tier), isBoss |-> FALSE])
                /\ members_left' = members_left - 1
                /\ IF members_left = 1
                   THEN /\ placed_positions' = Append(placed_positions, PyTuple(pos[1], pos[2]))
                        /\ groups_placed' = groups_placed + 1
                        /\ cursor' = cursor + 1
                   ELSE UNCHANGED <<placed_positions, groups_placed, cursor>>
                /\ UNCHANGED <<pc, exc, finished>>
       ELSE IF LoopEnds(cursor, AnchorCount, groups_placed, groups_to_add)
       THEN /\ pc' = "merge"
            /\ finished' = finished \cup {"C"}
            /\ UNCHANGED <<exc, placed_positions, new_enemies, groups_placed,
                           cursor, members_left>>
       ELSE LET pos == Anchor(cursor)
                d2 == DistSq(pos, spawn_pos)
                clear == IF d2 < GroupMinDist * GroupMinDist THEN "blocked"
                         ELSE is_position_clear(pos, placed_positions, GroupSpacing)
            IN  IF clear = "blocked"
                THEN /\ cursor' = cursor + 1
                     /\ UNCHANGED <<pc, exc, placed_positions, new_enemies,
                                    groups_placed, members_left, finished>>
                ELSE IF clear = "TypeError"
                THEN /\ Raise("TypeError")
                     /\ UNCHANGED <<cursor, placed_positions, new_enemies,
                                    groups_placed, members_left, finished>>
                ELSE /\ members_left' \in MinCluster .. MaxCluster
                     /\ UNCHANGED <<pc, exc, cursor, placed_positions, new_enemies,
                                    groups_placed, finished>>
    /\ UNCHANGED <<map_data, width, depth, spawn_pos, decodeVars, floor_positions,
                   new_props, monsters_placed, props_placed, writes, output>>

\* the merged document: the lists extended, the name suffixed
Merged_Replacing(doc, enemies, props) ==
    [doc EXCEPT !.enemies = enemies,
                !.placedProps = props,
                !.populated = @ + 1]
Merged(doc, enemies, props) ==
    [doc EXCEPT !.enemies = @ \o enemies,
                !.placedProps = @ \o props,
                !.populated = @ + 1]

\* the merge and json.dump to the destination
MergeSave ==
    /\ pc = "merge"
    /\ map_data' = Merged(map_data, new_enemies, new_props)
    /\ output' = map_data'
    /\ writes' = writes + 1
    /\ pc' = "done"
    /\ UNCHANGED <<exc, width, depth, spawn_pos, decodeVars, placeVars>>

Next ==
    \/ Load
    \/ Decompress
    \/ DecodeRun
    \/ FillCell
    \/ DecodeReturn
    \/ IndexFloor
    \/ PhaseAStep
    \/ PhaseBStep
    \/ PhaseCStep
    \/ MergeSave

Spec == Init /\ [][Next]_vars

----------------------------------------------------------------------------
(* The codec alone: every byte sequence and grid size within the bounds    *)

ByteVals == (0 .. MaxSmallByte) \cup {SENTINEL}
ByteSeqs == UNION {[1 .. n -> ByteVals] : n \in 0 .. MaxLen}

InitDecode ==
    /\ pc = "decode"
    /\ exc = ""
    /\ map_data = NoDoc
    /\ width \in 1 .. MaxW
    /\ depth \in 1 .. MaxD
    /\ spawn_pos = <<0, 0>>
    /\ decompressed \in ByteSeqs
    /\ i = 0 /\ x = 0 /\ z = 0
    /\ value = 0 /\ remaining = 0
    /\ tiles = EmptyGrid(width, depth)
    /\ floor_positions = <<>>
    /\ placed_positions = <<>>
    /\ new_enemies = <<>> /\ new_props = <<>>
    /\ monsters_placed = 0 /\ props_placed = 0 /\ groups_placed = 0
    /\ cursor = 0 /\ members_left = 0
    /\ finished = {}
    /\ writes = 0
    /\ output = NoDoc

NextDecode == DecodeRun \/ FillCell \/ DecodeReturn

SpecDecode == InitDecode /\ [][NextDecode]_vars

----------------------------------------------------------------------------
(* The codec's claims, under SpecDecode                                    *)

\* n copies of v
Repeat(v, n) == [j \in 1 .. n |-> v]

\* The runs of a byte stream expanded in stream order: a value followed by
\* 0xFF and a count byte is count copies of the value; a value followed by
\* 0xFF at the very end of the stream (no count byte) is one copy, the
\* sentinel being consumed; any other value is one copy.
RECURSIVE Expansion(_)
Expansion(s) ==
    IF s = <<>> THEN <<>>
    ELSE IF Len(s) >= 3 /\ s[2] = 255
         THEN Repeat(s[1], s[3]) \o Expansion(SubSeq(s, 4, Len(s)))
         ELSE IF Len(s) = 2 /\ s[2] = 255
              THEN <<s[1]>>
              ELSE <<s[1]>> \o Expansion(Tail(s))

Cells == {c \in (0 .. width - 1) \X (0 .. depth - 1) : TRUE}
CellIndex(c) == c[1] * depth + c[2]

\* C7: the grid decode returns has exactly width rows of exactly depth
\* cells, and the cell (x, z) holds element x*depth + z of the expanded
\* stream, for every element the stream has: runs fill z first and move to
\* the next x when z reaches depth.
C7_DecodeColumnMajor ==
    pc = "index" =>
        /\ DOMAIN tiles = 0 .. width - 1
        /\ \A xx \in 0 .. width - 1 : DOMAIN tiles[xx] = 0 .. depth - 1
        /\ LET e == Expansion(decompressed)
           IN  \A c \in Cells :
                   CellIndex(c) < Len(e) => tiles[c[1]][c[2]] = e[CellIndex(c) + 1]

\* a run of three cells that starts in row 0 and ends in row 1
C7_Witness ==
    /\ pc = "index"
    /\ width = 2 /\ depth = 2
    /\ decompressed = <<1, 255, 3>>
    /\ tiles[0][0] = 1 /\ tiles[0][1] = 1 /\ tiles[1][0] = 1 /\ tiles[1][1] = 0

\* the loop's variant: bytes left to read, then iterations left in the run
C8_Measure ==
    IF pc \in {"decode", "fill"}
    THEN 1 + remaining + 256 * (Len(decompressed) - i)
    ELSE 0

C8_Safe ==
    /\ pc \in {"decode", "fill", "index"}
    /\ exc = ""
    /\ pc = "fill" => remaining > 0
    /\ i <= Len(decompressed)
    /\ DOMAIN tiles = 0 .. width - 1
    /\ \A xx \in 0 .. width - 1 : DOMAIN tiles[xx] = 0 .. depth - 1
    /\ pc = "index" =>
           \A c \in Cells :
               CellIndex(c) >= Len(Expansion(decompressed)) => tiles[c[1]][c[2]] = 0

\* C8: for every byte sequence (truncated runs, short and long streams
\* included) the decode loop raises nothing, stores only inside the grid,
\* ends (every step lowers a natural-number variant), and leaves code 0 in
\* every cell the expanded stream does not reach.
C8_TruncationTolerant == [](C8_Safe) /\ [][C8_Measure' < C8_Measure]_vars

\* a stream that ends in a value and the sentinel, with no count byte
C8_Witness ==
    /\ pc = "index"
    /\ decompressed = <<0, 1, 255>>
    /\ width = 2 /\ depth = 2
    /\ tiles[0][0] = 0 /\ tiles[0][1] = 1 /\ tiles[1][0] = 0 /\ tiles[1][1] = 0

----------------------------------------------------------------------------
(* populate_map's claims, under Spec                                       *)

Placing == pc \in {"phaseA", "phaseB", "phaseC"}
RegisterBuilt ==
    \/ pc \in {"phaseA", "phaseB", "phaseC", "merge", "done"}
    \/ pc = "raised" /\ exc = "TypeError"

\* No run places anything: the first element every is_position_clear call
\* reads is an int of list(spawn_pos), so each call raises before a
\* placement can follow it.  The register never grows past its first value.
NothingPlaced ==
    /\ new_enemies = <<>> /\ new_props = <<>>
    /\ monsters_placed = 0 /\ props_placed = 0 /\ groups_placed = 0
    /\ members_left = 0
    /\ RegisterBuilt =>
           placed_positions = InitialRegister(spawn_pos, map_data.enemies)
               \/ pc = "done"

\* The spacing a phase keeps when it registers a position
PhaseSpacing ==
    IF pc = "phaseA" THEN MonsterSpacing
    ELSE IF pc = "phaseB" THEN PropSpacing
    ELSE GroupSpacing

\* C2, as far as the code decides it: a position a phase appends to the
\* register is at least the phase's spacing from every element already in
\* it.  It holds of every step, but no step appends (NothingPlaced), so the
\* statement is never put to the test.
C2_SpacingOnAppend ==
    [][(Placing /\ Len(placed_positions') = Len(placed_positions) + 1) =>
          LET new == placed_positions'[Len(placed_positions')]
          IN  \A k \in 1 .. Len(placed_positions) :
                  /\ placed_positions[k].tag = "tuple"
                  /\ DistSq(<<new.a, new.b>>,
                            <<placed_positions[k].a, placed_positions[k].b>>)
                         >= PhaseSpacing * PhaseSpacing]_vars

OnFloor(e) ==
    /\ e.x \in 0 .. width - 1
    /\ e.z \in 0 .. depth - 1
    /\ tiles[e.x][e.z] = 1

\* C6, as far as the code decides it: every generated monster and prop is
\* on a floor cell.  No monster or prop is ever generated (NothingPlaced).
C6_EntitiesOnFloor ==
    /\ \A k \in 1 .. Len(new_enemies) : OnFloor(new_enemies[k])
    /\ \A k \in 1 .. Len(new_props) : OnFloor(new_props[k])

\* C10, as far as the code decides it: no generated monster is nearer than
\* the safe zone to the spawn point.  No monster is ever generated.
C10_SafeZoneForAll ==
    \A k \in 1 .. Len(new_enemies) :
        DistSq(<<new_enemies[k].x, new_enemies[k].z>>, spawn_pos) >= SafeZone * SafeZone

\* C1: a run on a document whose tileData is non-empty and decodable raises
\* nothing, and when it is over the three phases have ended and the
\* destination has been written exactly once.
C1_RunsToCompletion ==
    map_data.tileData = "ok" =>
        /\ pc # "raised"
        /\ pc = "done" => finished = {"A", "B", "C"} /\ writes = 1

\* C9: once built, the register starts with the spawn point as one (x, z)
\* position, the existing enemies' positions follow it, and every element
\* is an (x, z) position.
C9_RegisterOfPositions ==
    RegisterBuilt =>
        /\ \A k \in 1 .. Len(placed_positions) : placed_positions[k].tag = "tuple"
        /\ placed_positions[1] = PyTuple(spawn_pos[1], spawn_pos[2])
        /\ (pc = "phaseA" /\ cursor = 0) =>
               Len(placed_positions) = 1 + Len(map_data.enemies)

C3_WithinQuota ==
    (Placing \/ pc \in {"merge", "done", "raised"}) =>
        /\ monsters_placed <= target_monsters
        /\ props_placed <= target_props
        /\ groups_placed <= groups_to_add

C3_StopsAtQuota ==
    /\ (pc = "phaseA" /\ (monsters_placed >= target_monsters
                            \/ cursor >= Len(floor_positions)))
           => (pc' = "phaseB" /\ UNCHANGED <<new_enemies, placed_positions, monsters_placed>>)
    /\ (pc = "phaseB" /\ (props_placed >= target_props
                            \/ cursor >= Len(floor_positions)))
           => (pc' = "phaseC" /\ UNCHANGED <<new_props, placed_positions, props_placed>>)
    /\ (pc = "phaseC" /\ members_left = 0
            /\ (groups_placed >= groups_to_add \/ cursor >= AnchorCount))
           => (pc' = "merge" /\ UNCHANGED <<new_enemies, placed_positions, groups_placed>>)

\* C3: the counts never exceed floor(F/100) monsters, floor(F/50) props and
\* min(20, floor(F/500)) groups, and a phase whose quota is met or whose
\* candidates are used up ends with its next step, placing nothing more.
C3_DensityBounds == [](C3_WithinQuota) /\ [][C3_StopsAtQuota]_vars

\* Phase A has ended on an exhausted list with its quota of 1 unmet
C3_Witness ==
    /\ pc = "phaseB" /\ cursor = 0
    /\ "A" \in finished
    /\ target_monsters = 1 /\ monsters_placed = 0
    /\ target_props = 2

C4_MergeStep ==
    (pc = "merge" /\ pc' = "done") =>
        /\ output'.enemies = map_data.enemies \o new_enemies
        /\ output'.placedProps = map_data.placedProps \o new_props
        /\ SubSeq(output'.enemies, 1, Len(map_data.enemies)) = map_data.enemies
        /\ SubSeq(output'.placedProps, 1, Len(map_data.placedProps)) = map_data.placedProps

\* C4: the written document's enemies are the loaded document's enemies, in
\* order and unchanged, followed by the run's monsters, and its placedProps
\* the loaded props followed by the run's props; between the load and the
\* merge the loaded lists do not change.
C4_MergeAdditive ==
    [][C4_MergeStep /\ (pc \notin {"start", "merge"} => map_data' = map_data)]_vars

\* a document with two different enemies and a prop has been merged
C4_Witness ==
    /\ pc = "done" /\ writes = 1
    /\ Len(output.enemies) = 2 /\ output.enemies[1] # output.enemies[2]
    /\ Len(output.placedProps) = 1

\* C5: the destination is written at most once, only once the three phases
\* have ended, and never in a run that aborts on missing or empty tileData
\* or that an exception ends.
C5_WriteOnceAtEnd ==
    /\ writes <= 1
    /\ writes = 1 => (pc = "done" /\ finished = {"A", "B", "C"})
    /\ writes = 0 => output = NoDoc
    /\ pc \in {"aborted", "raised"} => writes = 0
    /\ (pc # "start" /\ map_data.tileData # "ok") => writes = 0

\* a run has aborted on an empty tileData with nothing written
C5_Witness ==
    /\ pc = "aborted"
    /\ map_data.tileData = "empty"
    /\ Len(map_data.enemies) = 2
    /\ writes = 0 /\ output = NoDoc

====
